---- MODULE Spec2Model ----
(***************************************************************************)
(* PyCortexMDebug, cmdebug/svd.py: the SVD document loader.                *)
(*                                                                         *)
(* Text is a sequence of one-character strings, so that lower-casing,      *)
(* prefix matching, "%s" substitution and integer parsing are computed as  *)
(* the code computes them.  Python objects live in `heap` and are named by *)
(* their position in it, so that aliasing and copying are distinguishable. *)
(* An operation that can raise returns a record whose `exc` names the      *)
(* exception ("none" when it returns normally).                            *)
(***************************************************************************)
EXTENDS Integers, Sequences, FiniteSets, TLC

VARIABLES
    heap,         \* the objects built so far: fields, registers, clusters, peripherals
    peripherals,  \* SVDFile.peripherals, a SmartDict of name -> peripheral object
    status,       \* "loading", "done" (the constructor returned) or "failed" (it raised)
    doc,          \* the elements consumed so far, in document order
    cur,          \* the object under construction (register or parent), 0 when none
    inp           \* the inputs drawn at the start: the document's root, or the
                  \* bit range and access of a field build

vars == <<heap, peripherals, status, doc, cur, inp>>

-----------------------------------------------------------------------------
(* Text and integers *)

\* Python None: an absent element or attribute
None == <<"None">>

Upper == <<"A","B","C","D","E","F","G","H","I","J","K","L","M",
           "N","O","P","Q","R","S","T","U","V","W","X","Y","Z">>
LowerCase == <<"a","b","c","d","e","f","g","h","i","j","k","l","m",
               "n","o","p","q","r","s","t","u","v","w","x","y","z">>
DigitChars == <<"0","1","2","3","4","5","6","7","8","9">>
HexChars == <<"0","1","2","3","4","5","6","7","8","9","a","b","c","d","e","f">>

IsDigit(c) == \E i \in 1..10 : DigitChars[i] = c

DigitVal(c) == (CHOOSE i \in 1..10 : DigitChars[i] = c) - 1

lower_char(c) ==
    IF \E i \in 1..26 : Upper[i] = c
    THEN LowerCase[CHOOSE i \in 1..26 : Upper[i] = c]
    ELSE c

\* str.lower()
lower(s) == [i \in 1..Len(s) |-> lower_char(s[i])]

IsHexDigit(c) == \E i \in 1..16 : HexChars[i] = lower_char(c)

HexVal(c) == (CHOOSE i \in 1..16 : HexChars[i] = lower_char(c)) - 1

\* str.startswith / str.endswith
startswith(s, p) == Len(p) <= Len(s) /\ SubSeq(s, 1, Len(p)) = p

endswith(s, p) == Len(p) <= Len(s) /\ SubSeq(s, Len(s) - Len(p) + 1, Len(s)) = p

\* Python truthiness of an optional string: neither None nor ""
Truthy(s) == s # None /\ s # <<>>

\* Element.findtext(tag, default)
findtext(text, default) == IF text = None THEN default ELSE text

RECURSIVE str(_)
\* str(i) of a non-negative integer
str(n) == IF n < 10 THEN <<DigitChars[n + 1]>>
          ELSE Append(str(n \div 10), DigitChars[(n % 10) + 1])

RECURSIVE DigitsValue(_, _, _)
\* the value of digit string s in the given base, most significant digit first
DigitsValue(s, base, acc) ==
    IF s = <<>> THEN acc
    ELSE DigitsValue(Tail(s), base, acc * base + HexVal(Head(s)))

AllDigits(s) == s # <<>> /\ \A i \in 1..Len(s) : IsDigit(s[i])

\* str.strip() of blanks
RECURSIVE strip(_)
strip(s) ==
    IF s # <<>> /\ Head(s) = " " THEN strip(Tail(s))
    ELSE IF s # <<>> /\ s[Len(s)] = " " THEN strip(SubSeq(s, 1, Len(s) - 1))
    ELSE s

\* an integer literal is read without the blanks around it and with its sign
Signed(s, r) ==
    IF r.exc = "none" /\ s # <<>> /\ s[1] = "-" THEN [r EXCEPT !.val = 0 - @] ELSE r

Unsigned(s) == IF s # <<>> /\ s[1] \in {"+", "-"} THEN Tail(s) ELSE s

\* the digits of a decimal literal
Decimal(s) ==
    IF AllDigits(s) THEN [exc |-> "none", val |-> DigitsValue(s, 10, 0)]
    ELSE [exc |-> "ValueError", val |-> 0]

\* the digits of a literal of base 0: 0x and hexadecimal digits, 0o and octal
\* digits, 0b and binary digits, or a decimal literal without a leading zero
Literal(s) ==
    IF Len(s) > 2 /\ s[1] = "0" /\ lower_char(s[2]) = "x"
          /\ \A i \in 3..Len(s) : IsHexDigit(s[i])
    THEN [exc |-> "none", val |-> DigitsValue(SubSeq(s, 3, Len(s)), 16, 0)]
    ELSE IF Len(s) > 2 /\ s[1] = "0" /\ lower_char(s[2]) = "o"
          /\ \A i \in 3..Len(s) : IsDigit(s[i]) /\ DigitVal(s[i]) < 8
    THEN [exc |-> "none", val |-> DigitsValue(SubSeq(s, 3, Len(s)), 8, 0)]
    ELSE IF Len(s) > 2 /\ s[1] = "0" /\ lower_char(s[2]) = "b"
          /\ \A i \in 3..Len(s) : s[i] \in {"0", "1"}
    THEN [exc |-> "none", val |-> DigitsValue(SubSeq(s, 3, Len(s)), 2, 0)]
    ELSE IF AllDigits(s) /\ (s[1] # "0" \/ \A i \in 1..Len(s) : s[i] = "0")
         THEN [exc |-> "none", val |-> DigitsValue(s, 10, 0)]
    ELSE [exc |-> "ValueError", val |-> 0]

\* int(s)
int10(s) ==
    IF s = None THEN [exc |-> "TypeError", val |-> 0]
    ELSE Signed(strip(s), Decimal(Unsigned(strip(s))))

\* int(s, 0)
int0(s) ==
    IF s = None THEN [exc |-> "TypeError", val |-> 0]
    ELSE Signed(strip(s), Literal(Unsigned(strip(s))))

\* the digits of a binary literal, with an optional 0b prefix
Binary(s) ==
    LET body == IF Len(s) > 2 /\ s[1] = "0" /\ lower_char(s[2]) = "b"
                THEN SubSeq(s, 3, Len(s)) ELSE s
    IN  IF body # <<>> /\ \A i \in 1..Len(body) : body[i] \in {"0", "1"}
        THEN [exc |-> "none", val |-> DigitsValue(body, 2, 0)]
        ELSE [exc |-> "ValueError", val |-> 0]

\* int(s, 2)
int2(s) == Signed(strip(s), Binary(Unsigned(strip(s))))

RECURSIVE join(_, _)
\* sep.join(parts)
join(sep, parts) ==
    IF parts = <<>> THEN <<>>
    ELSE IF Len(parts) = 1 THEN parts[1]
    ELSE parts[1] \o sep \o join(sep, Tail(parts))

RECURSIVE split(_, _)
\* s.split(sep) for a one-character sep: "".split(",") is [""]
split(s, sep) ==
    IF \E i \in 1..Len(s) : s[i] = sep
    THEN LET i == CHOOSE j \in 1..Len(s) :
                      s[j] = sep /\ \A k \in 1..(j - 1) : s[k] # sep
         IN  <<SubSeq(s, 1, i - 1)>> \o split(SubSeq(s, i + 1, Len(s)), sep)
    ELSE <<s>>

\* the places of "%s" in a format string
FormatPoints(t) == {i \in 1..(Len(t) - 1) : t[i] = "%" /\ t[i + 1] = "s"}

\* template % arg, for a string arg: exactly one "%s" is substituted
format(template, arg) ==
    IF template = None THEN [exc |-> "TypeError", val |-> None]
    ELSE IF Cardinality(FormatPoints(template)) # 1
         THEN [exc |-> "TypeError", val |-> None]
    ELSE LET i == CHOOSE j \in FormatPoints(template) : TRUE
         IN  [exc |-> "none",
              val |-> SubSeq(template, 1, i - 1) \o arg
                      \o SubSeq(template, i + 2, Len(template))]

-----------------------------------------------------------------------------
(* dict and OrderedDict: a sequence of [k, v] in insertion order *)

Has(m, key) == \E i \in 1..Len(m) : m[i].k = key

Get(m, key) == m[CHOOSE i \in 1..Len(m) : m[i].k = key].v

\* m[key] = value: a key already present keeps its place
Put(m, key, value) ==
    IF Has(m, key)
    THEN [i \in 1..Len(m) |-> IF m[i].k = key THEN [k |-> key, v |-> value] ELSE m[i]]
    ELSE Append(m, [k |-> key, v |-> value])

Keys(m) == [i \in 1..Len(m) |-> m[i].k]

Values(m) == [i \in 1..Len(m) |-> m[i].v]

-----------------------------------------------------------------------------
(* SmartDict *)

SmartDict_init == [od |-> <<>>, casemap |-> <<>>]

\* the trailing digits of a key ([0-9]*$) and what precedes them (^.*?)
NumberOf(key) ==
    LET n == Len(key)
        start == CHOOSE i \in 1..(n + 1) :
                    /\ \A j \in i..n : IsDigit(key[j])
                    /\ (i = 1 \/ ~IsDigit(key[i - 1]))
    IN  SubSeq(key, start, n)

NameOf(key) == SubSeq(key, 1, Len(key) - Len(NumberOf(key)))

\* the od keys prefix_match_iter yields, in casemap order
prefix_match_iter(d, key) ==
    LET name == NameOf(lower(key))
        number == NumberOf(lower(key))
        hits == SelectSeq(d.casemap,
                    LAMBDA e : startswith(e.k, name) /\ endswith(e.k, number))
    IN  Values(hits)

\* a prefix_match that returns the last key the iteration yields
prefix_match_last(d, key) ==
    LET it == prefix_match_iter(d, key)
    IN  IF it # <<>> THEN it[Len(it)] ELSE None

prefix_match(d, key) ==
    LET it == prefix_match_iter(d, key)
    IN  IF it # <<>> THEN it[1] ELSE None

SmartDict_getitem(d, key) ==
    IF Has(d.od, key) THEN [exc |-> "none", val |-> Get(d.od, key)]
    ELSE IF Has(d.casemap, lower(key))
         THEN LET k == Get(d.casemap, lower(key))
              IN  IF Has(d.od, k) THEN [exc |-> "none", val |-> Get(d.od, k)]
                  ELSE [exc |-> "KeyError", val |-> 0]
    ELSE LET k == prefix_match(d, key)
         IN  IF Has(d.od, k) THEN [exc |-> "none", val |-> Get(d.od, k)]
             ELSE [exc |-> "KeyError", val |-> 0]

is_ambiguous(d, key) ==
    /\ ~Has(d.od, key)
    /\ ~Has(d.casemap, key)
    /\ Len(prefix_match_iter(d, key)) > 1

\* a __setitem__ that leaves a case map entry with the key that made it
SmartDict_setitem_first(d, key, value) ==
    [od |-> Put(d.od, key, value),
     casemap |-> IF Has(d.casemap, lower(key)) THEN d.casemap
                 ELSE Put(d.casemap, lower(key), key)]

SmartDict_setitem(d, key, value) ==
    [od |-> Put(d.od, key, value), casemap |-> Put(d.casemap, lower(key), key)]

\* del m[key]
Remove(m, key) == SelectSeq(m, LAMBDA e : e.k # key)

\* del self.od[key], after the case map was seen to
DelOd(d, key) ==
    IF Has(d.od, key) THEN [exc |-> "none", d |-> [d EXCEPT !.od = Remove(@, key)]]
    ELSE [exc |-> "KeyError", d |-> d]

\* a __delitem__ that deletes from the ordered table and leaves the case map
SmartDict_delitem_od(d, key) ==
    IF ~Has(d.casemap, lower(key)) THEN [exc |-> "KeyError", d |-> d]
    ELSE DelOd(d, key)

\* SmartDict.__delitem__: the case map entry goes only if it names this key
SmartDict_delitem(d, key) ==
    IF ~Has(d.casemap, lower(key)) THEN [exc |-> "KeyError", d |-> d]
    ELSE DelOd(IF Get(d.casemap, lower(key)) = key
               THEN [d EXCEPT !.casemap = Remove(@, lower(key))]
               ELSE d,
               key)

SmartDict_contains(d, key) ==
    \/ Has(d.od, key)
    \/ Has(d.casemap, lower(key))
    \/ Truthy(prefix_match(d, key))

SmartDict_values(d) == Values(d.od)

-----------------------------------------------------------------------------
(* The access-mode taxonomy, as the text of an <access> element *)

read_only == <<"r","e","a","d","-","o","n","l","y">>
write_only == <<"w","r","i","t","e","-","o","n","l","y">>
read_write == <<"r","e","a","d","-","w","r","i","t","e">>
writeOnce == <<"w","r","i","t","e","O","n","c","e">>
read_writeOnce == <<"r","e","a","d","-","w","r","i","t","e","O","n","c","e">>

AccessModes == {read_only, write_only, read_write, writeOnce, read_writeOnce}

-----------------------------------------------------------------------------
(* Results of operations on the heap *)

Raise(e, h) == [exc |-> e, heap |-> h, id |-> 0]

Return(h, i) == [exc |-> "none", heap |-> h, id |-> i]

\* allocate an object: its id is its place in the heap
New(h, obj) == Return(Append(h, obj), Len(h) + 1)

-----------------------------------------------------------------------------
(* SVDPeripheralRegisterField *)

RangeError(e) == [exc |-> e, offset |-> 0, width |-> 0]

\* offset and width from bitOffset and bitWidth, both already through int()
OffsetWidth(o, w) ==
    IF o.exc # "none" THEN RangeError(o.exc)
    ELSE IF w.exc # "none" THEN RangeError(w.exc)
    ELSE [exc |-> "none", offset |-> o.val, width |-> w.val]

\* offset and width taken from a "[msb:lsb]" string in the order written
RangeParts_as_written(ints) ==
    IF \E i \in 1..Len(ints) : ints[i].exc # "none" THEN RangeError("ValueError")
    ELSE IF Len(ints) < 2 THEN RangeError("IndexError")
    ELSE [exc |-> "none", offset |-> ints[1].val,
          width |-> 1 + ints[2].val - ints[1].val]

\* offset and width from the integers of a "[msb:lsb]" string
RangeParts(ints) ==
    IF \E i \in 1..Len(ints) : ints[i].exc # "none" THEN RangeError("ValueError")
    ELSE IF Len(ints) < 2 THEN RangeError("IndexError")
    ELSE [exc |-> "none", offset |-> ints[2].val,
          width |-> 1 + ints[1].val - ints[2].val]

\* bit_range_str.strip()[1:-1].split(":"), each part through int()
RangeInts(bit_range_str) ==
    LET stripped == strip(bit_range_str)
        parts == split(SubSeq(stripped, 2, Len(stripped) - 1), ":")
    IN  [i \in 1..Len(parts) |-> int10(parts[i])]

\* offset and width from lsb and msb, both already through int()
LsbMsb(lsb, msb) ==
    IF lsb.exc # "none" THEN RangeError(lsb.exc)
    ELSE IF msb.exc # "none" THEN RangeError(msb.exc)
    ELSE [exc |-> "none", offset |-> lsb.val, width |-> 1 + msb.val - lsb.val]

\* the bit range of a field element, from the first encoding present
BitRange(svd_elem) ==
    IF Truthy(svd_elem.bitOffset) /\ Truthy(svd_elem.bitWidth)
    THEN OffsetWidth(int10(svd_elem.bitOffset), int10(svd_elem.bitWidth))
    ELSE IF Truthy(svd_elem.bitRange)
    THEN RangeParts(RangeInts(svd_elem.bitRange))
    ELSE IF ~(Truthy(svd_elem.lsb) /\ Truthy(svd_elem.msb))
    THEN RangeError("AssertionError")
    ELSE LsbMsb(int10(svd_elem.lsb), int10(svd_elem.msb))

\* the integer an enumeratedValue's literal stands for
EnumIndex(value) ==
    IF value = None THEN [exc |-> "TypeError", val |-> 0]
    ELSE IF value = <<>> THEN [exc |-> "IndexError", val |-> 0]
    ELSE IF value[1] = "#" THEN int2(Tail(value))
    ELSE int0(value)

RECURSIVE EnumTable(_, _)
\* one enumeratedValue: a ValueError skips the entry
EnumEntry(values, enum, index) ==
    IF index.exc = "none"
    THEN EnumTable(Tail(values),
             Put(enum, index.val,
                 <<findtext(Head(values).name, <<>>),
                   findtext(Head(values).description, <<>>)>>))
    ELSE IF index.exc = "ValueError" THEN EnumTable(Tail(values), enum)
    ELSE [exc |-> index.exc, val |-> enum]

\* the loop over enumeratedValues/enumeratedValue
EnumTable(values, enum) ==
    IF values = <<>> THEN [exc |-> "none", val |-> enum]
    ELSE EnumEntry(values, enum, EnumIndex(Head(values).value))

\* the field object, given its bit range and enum table
FieldObject(h, svd_elem, parent, range, enum) ==
    IF range.exc # "none" THEN Raise(range.exc, h)
    ELSE IF enum.exc # "none" THEN Raise(enum.exc, h)
    ELSE New(h, [kind |-> "field",
                 name |-> svd_elem.name,
                 description |-> findtext(svd_elem.description, <<>>),
                 offset |-> range.offset,
                 width |-> range.width,
                 access |-> findtext(svd_elem.access, h[parent].access),
                 enum |-> enum.val])

\* SVDPeripheralRegisterField(svd_elem, parent): parent is the register object
SVDPeripheralRegisterField_init(h, svd_elem, parent) ==
    FieldObject(h, svd_elem, parent, BitRange(svd_elem),
                EnumTable(svd_elem.enumeratedValues, <<>>))

\* a readable() that leaves read-writeOnce out
SVDPeripheralRegisterField_readable_short(self) ==
    self.access \in {read_only, read_write}

SVDPeripheralRegisterField_readable(self) ==
    self.access \in {read_only, read_write, read_writeOnce}

SVDPeripheralRegisterField_writable(self) ==
    self.access \in {write_only, read_write, writeOnce, read_writeOnce}

-----------------------------------------------------------------------------
(* SVDPeripheralRegister *)

\* self.refactor_parent(parent): stamp the parent's base address into the register
SVDPeripheralRegister_refactor_parent(h, self, parent) ==
    [h EXCEPT ![self].parent_base_address = h[parent].base_address]

SVDPeripheralRegister_address(self) == self.parent_base_address + self.offset

SVDPeripheralRegister_readable(self) ==
    self.access \in {read_only, read_write, read_writeOnce}

SVDPeripheralRegister_writable(self) ==
    self.access \in {write_only, read_write, writeOnce, read_writeOnce}

RECURSIVE deepcopy(_, _)
\* the copy of obj is allocated and entered under the key of the last entry of a
CopyStore(a, init, obj, sub1, sub2) ==
    [heap |-> Append(sub2.heap,
                  IF obj.kind = "register" THEN [obj EXCEPT !.fields = sub1.val]
                  ELSE IF obj.kind = "cluster"
                       THEN [obj EXCEPT !.registers = sub1.val, !.clusters = sub2.val]
                  ELSE obj),
     val |-> [a EXCEPT !.od = Append(init.val.od,
                               [k |-> a.od[Len(a.od)].k, v |-> Len(sub2.heap) + 1])]]

\* a cluster's second table, clusters, is copied
CopySecond(a, init, obj, sub1) ==
    CopyStore(a, init, obj, sub1,
              IF obj.kind = "cluster" THEN deepcopy(sub1.heap, obj.clusters)
              ELSE [heap |-> sub1.heap, val |-> SmartDict_init])

\* the table an object owns is copied: a register's fields, a cluster's registers
CopyFirst(a, init, obj) ==
    CopySecond(a, init, obj,
               IF obj.kind = "register" THEN deepcopy(init.heap, obj.fields)
               ELSE IF obj.kind = "cluster" THEN deepcopy(init.heap, obj.registers)
               ELSE [heap |-> init.heap, val |-> SmartDict_init])

\* the last entry of a is copied after the entries before it
CopyLast(a, init) == CopyFirst(a, init, init.heap[a.od[Len(a.od)].v])

\* the copy of a SmartDict of objects with everything it reaches: each object is
\* allocated anew and the new table names the new objects
deepcopy(h, a) ==
    IF a.od = <<>> THEN [heap |-> h, val |-> a]
    ELSE CopyLast(a, deepcopy(h, [a EXCEPT !.od = SubSeq(a.od, 1, Len(a.od) - 1)]))

\* a copier that hands back the table it was given, objects shared
copier_shared(h, a) == [heap |-> h, val |-> a]

\* copier(a), the local function of both derivedFrom branches:
\* pickle.loads(pickle.dumps(a))
copier(h, a) == deepcopy(h, a)

\* the built field is stored under its name
StoreField(h, self, field, f) ==
    IF f.exc # "none" THEN Raise(f.exc, h)
    ELSE IF field.name = None THEN Raise("AttributeError", h)
    ELSE Return([f.heap EXCEPT ![self].fields = SmartDict_setitem(@, field.name, f.id)],
                self)

\* self.fields[field.findtext("name")] = SVDPeripheralRegisterField(field, self):
\* one turn of the loop over fields/field
add_field(h, self, field) ==
    StoreField(h, self, field, SVDPeripheralRegisterField_init(h, field, self))

RECURSIVE add_fields(_, _, _)
FieldStored(self, fields, r) ==
    IF r.exc # "none" THEN r ELSE add_fields(r.heap, self, Tail(fields))

\* for field in svd_elem.iterfind("fields/field")
add_fields(h, self, fields) ==
    IF fields = <<>> THEN Return(h, self)
    ELSE FieldStored(self, fields, add_field(h, self, Head(fields)))

\* the register object as it stands before derivedFrom is looked at
RegisterObject(h, svd_elem, parent, size, offset) ==
    IF size.exc # "none" THEN Raise(size.exc, h)
    ELSE IF offset.exc # "none" THEN Raise(offset.exc, h)
    ELSE New(h, [kind |-> "register",
                 parent_base_address |-> h[parent].base_address,
                 name |-> svd_elem.name,
                 description |-> svd_elem.description,
                 access |-> findtext(svd_elem.access, read_write),
                 size |-> size.val,
                 offset |-> offset.val,
                 fields |-> SmartDict_init])

\* name, description, access, size and offset are read from the element
RegisterHead(h, svd_elem, parent) ==
    RegisterObject(h, svd_elem, parent,
                   int0(findtext(svd_elem.size, <<"0","x","2","0">>)),
                   int0(svd_elem.addressOffset))

\* the name of a derived register: the base's when the element has none, and the
\* base's description when the element has no description
DerivedName(self, base_register) ==
    IF self.description = None THEN base_register.description
    ELSE IF self.name = None THEN base_register.name
    ELSE self.name

\* the copied field table is put under the register's own attributes
RegisterOverlay(self, parent, base_register, cp) ==
    Return(SVDPeripheralRegister_refactor_parent(
               [cp.heap EXCEPT ![self].name = DerivedName(cp.heap[self], base_register),
                               ![self].fields = cp.val],
               self, parent),
           self)

\* base_register = parent.registers[derived_from], if the lookup finds one
RegisterLookedUp(h, self, parent, look) ==
    IF look.exc # "none" THEN Raise(look.exc, h)
    ELSE RegisterOverlay(self, parent, h[look.val], copier(h, h[look.val].fields))

\* the derivedFrom branch of SVDPeripheralRegister
RegisterDerived(h, self, svd_elem, parent) ==
    RegisterLookedUp(h, self, parent,
                     SmartDict_getitem(h[parent].registers, svd_elem.derivedFrom))

\* the branch without derivedFrom: a missing description is "", fields are built
RegisterBuilt(h, self, svd_elem) ==
    add_fields(IF h[self].description = None THEN [h EXCEPT ![self].description = <<>>]
               ELSE h,
               self, svd_elem.fields)

RegisterBody(svd_elem, parent, head) ==
    IF head.exc # "none" THEN head
    ELSE IF svd_elem.derivedFrom # None
         THEN RegisterDerived(head.heap, head.id, svd_elem, parent)
    ELSE RegisterBuilt(head.heap, head.id, svd_elem)

\* SVDPeripheralRegister(svd_elem, parent)
SVDPeripheralRegister_init(h, svd_elem, parent) ==
    RegisterBody(svd_elem, parent, RegisterHead(h, svd_elem, parent))

-----------------------------------------------------------------------------
(* add_register, add_cluster, SVDRegisterCluster, SVDPeripheral *)

\* the index tokens of a dim element: dimIndex, or "0,1,...,dim-1", split at commas
DimIndices(node, dim) ==
    split(findtext(node.dimIndex, join(<<",">>, [i \in 1..dim |-> str(i - 1)])), ",")

\* reg.name = name; reg.description = desc; reg.offset += offset;
\* parent.registers[name] = reg
StoreDimRegister(h, parent, reg, name, desc, offset) ==
    [h EXCEPT ![reg].name = name,
              ![reg].description = desc,
              ![reg].offset = @ + offset,
              ![parent].registers = SmartDict_setitem(@, name, reg)]

RECURSIVE add_register_dim(_, _, _, _, _, _)
DimRegisterBuilt(h, parent, node, indices, offset, incr, name, desc, reg) ==
    IF reg.exc # "none" THEN Raise(reg.exc, h)
    ELSE add_register_dim(StoreDimRegister(reg.heap, parent, reg.id, name, desc, offset),
                          parent, node, Tail(indices), offset + incr, incr)

DimRegisterNamed(h, parent, node, indices, offset, incr, name, desc) ==
    IF name.exc # "none" THEN Raise(name.exc, h)
    ELSE DimRegisterBuilt(h, parent, node, indices, offset, incr, name.val,
                          IF desc.exc = "TypeError" THEN node.description ELSE desc.val,
                          SVDPeripheralRegister_init(h, node, parent))

\* the loop over the index tokens of a dim register
add_register_dim(h, parent, node, indices, offset, incr) ==
    IF indices = <<>> THEN Return(h, parent)
    ELSE DimRegisterNamed(h, parent, node, indices, offset, incr,
                          format(node.name, Head(indices)),
                          format(node.description, Head(indices)))

\* the dim branch of add_register, dim and dimIncrement already through int()
add_register_array(h, parent, node, dim, incr) ==
    IF dim.exc # "none" THEN Raise(dim.exc, h)
    ELSE IF incr.exc # "none" THEN Raise(incr.exc, h)
    ELSE add_register_dim(h, parent, node, DimIndices(node, dim.val), 0, incr.val)

\* an else branch that stores the register whatever parent.registers holds
add_register_single_always(h, parent, node, reg) ==
    IF reg.exc = "SVDNonFatalError" THEN Return(h, parent)
    ELSE IF reg.exc # "none" THEN Raise(reg.exc, h)
    ELSE IF node.name = None THEN Raise("AttributeError", h)
    ELSE Return([reg.heap EXCEPT ![parent].registers =
                    SmartDict_setitem(@, node.name, reg.id)],
                parent)

\* the branch without dim: the register is built, and stored unless its name is
\* found in parent.registers
add_register_single(h, parent, node, reg) ==
    IF reg.exc = "SVDNonFatalError" THEN Return(h, parent)
    ELSE IF reg.exc # "none" THEN Raise(reg.exc, h)
    ELSE IF node.name = None THEN Raise("AttributeError", h)
    ELSE IF ~SmartDict_contains(reg.heap[parent].registers, node.name)
         THEN Return([reg.heap EXCEPT ![parent].registers =
                         SmartDict_setitem(@, node.name, reg.id)],
                     parent)
    ELSE Return(reg.heap, parent)

\* add_register(parent, node)
add_register(h, parent, node) ==
    IF Truthy(node.dim)
    THEN add_register_array(h, parent, node, int0(node.dim), int0(node.dimIncrement))
    ELSE add_register_single(h, parent, node, SVDPeripheralRegister_init(h, node, parent))

RECURSIVE add_registers(_, _, _)
RegisterAdded(parent, nodes, r) ==
    IF r.exc # "none" THEN r ELSE add_registers(r.heap, parent, Tail(nodes))

\* for register in ...: add_register(self, register)
add_registers(h, parent, nodes) ==
    IF nodes = <<>> THEN Return(h, parent)
    ELSE RegisterAdded(parent, nodes, add_register(h, parent, Head(nodes)))

\* the cluster object, addressOffset already through int()
ClusterObject(h, svd_elem, parent, address_offset) ==
    IF address_offset.exc # "none" THEN Raise(address_offset.exc, h)
    ELSE New(h, [kind |-> "cluster",
                 parent_base_address |-> h[parent].base_address,
                 parent_name |-> h[parent].name,
                 address_offset |-> address_offset.val,
                 base_address |-> address_offset.val + h[parent].base_address,
                 description |-> findtext(svd_elem.description, <<>>),
                 name |-> svd_elem.name,
                 registers |-> SmartDict_init,
                 clusters |-> SmartDict_init])

\* the loop over the cluster element's register children, its only children read
ClusterRegisters(svd_elem, self) ==
    IF self.exc # "none" THEN self
    ELSE add_registers(self.heap, self.id, svd_elem.registers)

\* SVDRegisterCluster(svd_elem, parent)
SVDRegisterCluster_init(h, svd_elem, parent) ==
    ClusterRegisters(svd_elem,
                     ClusterObject(h, svd_elem, parent, int0(svd_elem.addressOffset)))

RECURSIVE RefactorRegisters(_, _, _)
\* for r in self.registers.values(): r.refactor_parent(self)
RefactorRegisters(h, ids, parent) ==
    IF ids = <<>> THEN h
    ELSE RefactorRegisters(SVDPeripheralRegister_refactor_parent(h, Head(ids), parent),
                           Tail(ids), parent)

\* a refactor_parent that rebases the cluster and leaves its registers as stamped
SVDRegisterCluster_refactor_parent_shallow(h, self, parent) ==
    [h EXCEPT ![self].parent_base_address = h[parent].base_address,
              ![self].parent_name = h[parent].name,
              ![self].base_address = h[parent].base_address + h[self].address_offset]

\* SVDRegisterCluster.refactor_parent(parent)
SVDRegisterCluster_refactor_parent(h, self, parent) ==
    RefactorRegisters(
        [h EXCEPT ![self].parent_base_address = h[parent].base_address,
                  ![self].parent_name = h[parent].name,
                  ![self].base_address = h[parent].base_address + h[self].address_offset],
        SmartDict_values(h[self].registers), self)

\* cluster.name = name; cluster.address_offset += offset;
\* cluster.base_address += offset; parent.clusters[name] = cluster
StoreDimCluster(h, parent, cluster, name, offset) ==
    [h EXCEPT ![cluster].name = name,
              ![cluster].address_offset = @ + offset,
              ![cluster].base_address = @ + offset,
              ![parent].clusters = SmartDict_setitem(@, name, cluster)]

RECURSIVE add_cluster_dim(_, _, _, _, _, _)
DimClusterBuilt(h, parent, node, indices, offset, incr, name, cluster) ==
    IF cluster.exc # "none" THEN Raise(cluster.exc, h)
    ELSE add_cluster_dim(StoreDimCluster(cluster.heap, parent, cluster.id, name, offset),
                         parent, node, Tail(indices), offset + incr, incr)

DimClusterNamed(h, parent, node, indices, offset, incr, name) ==
    IF name.exc # "none" THEN Raise(name.exc, h)
    ELSE DimClusterBuilt(h, parent, node, indices, offset, incr, name.val,
                         SVDRegisterCluster_init(h, node, parent))

\* the loop over the index tokens of a dim cluster
add_cluster_dim(h, parent, node, indices, offset, incr) ==
    IF indices = <<>> THEN Return(h, parent)
    ELSE DimClusterNamed(h, parent, node, indices, offset, incr,
                         format(node.name, Head(indices)))

\* the dim branch of add_cluster, dim and dimIncrement already through int()
add_cluster_array(h, parent, node, dim, incr) ==
    IF dim.exc # "none" THEN Raise(dim.exc, h)
    ELSE IF incr.exc # "none" THEN Raise(incr.exc, h)
    ELSE add_cluster_dim(h, parent, node, DimIndices(node, dim.val), 0, incr.val)

\* the branch without dim: parent.clusters[name_str] = SVDRegisterCluster(node, parent)
add_cluster_single(h, parent, node, cluster) ==
    IF cluster.exc = "SVDNonFatalError" THEN Return(h, parent)
    ELSE IF cluster.exc # "none" THEN Raise(cluster.exc, h)
    ELSE IF node.name = None THEN Raise("AttributeError", h)
    ELSE Return([cluster.heap EXCEPT ![parent].clusters =
                    SmartDict_setitem(@, node.name, cluster.id)],
                parent)

\* add_cluster(parent, node)
add_cluster(h, parent, node) ==
    IF Truthy(node.dim)
    THEN add_cluster_array(h, parent, node, int0(node.dim), int0(node.dimIncrement))
    ELSE add_cluster_single(h, parent, node, SVDRegisterCluster_init(h, node, parent))

RECURSIVE add_clusters(_, _, _)
ClusterAdded(parent, nodes, r) ==
    IF r.exc # "none" THEN r ELSE add_clusters(r.heap, parent, Tail(nodes))

\* for cluster in ...: add_cluster(self, cluster)
add_clusters(h, parent, nodes) ==
    IF nodes = <<>> THEN Return(h, parent)
    ELSE ClusterAdded(parent, nodes, add_cluster(h, parent, Head(nodes)))

RECURSIVE RefactorClusters(_, _, _)
\* for c in self.clusters.values(): c.refactor_parent(self)
RefactorClusters(h, ids, parent) ==
    IF ids = <<>> THEN h
    ELSE RefactorClusters(SVDRegisterCluster_refactor_parent(h, Head(ids), parent),
                          Tail(ids), parent)

\* SVDPeripheral.refactor_parent(parent): parent is the SVDFile
SVDPeripheral_refactor_parent(h, self, file) ==
    RefactorClusters(
        RefactorRegisters([h EXCEPT ![self].parent_base_address = file.base_address],
                          SmartDict_values(h[self].registers), self),
        SmartDict_values(h[self].clusters), self)

\* the copied clusters join the copied registers in the derived peripheral, whose
\* description is the element's or else the base's; then refactor_parent
PeripheralOverlay(self, svd_elem, file, base_peripheral, regs, clus) ==
    Return(SVDPeripheral_refactor_parent(
               [clus.heap EXCEPT
                   ![self].description =
                       findtext(svd_elem.description, base_peripheral.description),
                   ![self].registers = regs.val,
                   ![self].clusters = clus.val],
               self, file),
           self)

\* self.clusters = copier(base_peripheral.clusters), after the registers
PeripheralCopied(self, svd_elem, file, base_peripheral, regs) ==
    PeripheralOverlay(self, svd_elem, file, base_peripheral, regs,
                      copier(regs.heap, base_peripheral.clusters))

\* base_peripheral = parent.peripherals[derived_from], if the lookup finds one
PeripheralLookedUp(h, self, svd_elem, file, look) ==
    IF look.exc # "none" THEN Raise(look.exc, h)
    ELSE PeripheralCopied(self, svd_elem, file, h[look.val],
                          copier(h, h[look.val].registers))

\* the derivedFrom branch of SVDPeripheral
PeripheralDerived(h, self, svd_elem, file) ==
    PeripheralLookedUp(h, self, svd_elem, file,
                       SmartDict_getitem(file.peripherals, svd_elem.derivedFrom))

\* the branch without derivedFrom: registers/register, then registers/cluster
PeripheralClusters(self, svd_elem, regs) ==
    IF regs.exc # "none" THEN regs
    ELSE add_clusters(regs.heap, self, svd_elem.clusters)

PeripheralBuilt(h, self, svd_elem) ==
    PeripheralClusters(self, svd_elem, add_registers(h, self, svd_elem.registers))

\* the peripheral object, baseAddress already through int()
PeripheralObject(h, svd_elem, file, base_address) ==
    IF base_address.exc # "none" THEN Raise(base_address.exc, h)
    ELSE New(h, [kind |-> "peripheral",
                 parent_base_address |-> file.base_address,
                 name |-> svd_elem.name,
                 base_address |-> base_address.val,
                 description |-> svd_elem.description,
                 registers |-> SmartDict_init,
                 clusters |-> SmartDict_init])

PeripheralBody(svd_elem, file, self) ==
    IF self.exc # "none" THEN self
    ELSE IF svd_elem.derivedFrom # None
         THEN PeripheralDerived(self.heap, self.id, svd_elem, file)
    ELSE PeripheralBuilt(self.heap, self.id, svd_elem)

\* a constructor that does not look for a missing baseAddress before int()
SVDPeripheral_init_unchecked(h, svd_elem, file) ==
    PeripheralBody(svd_elem, file,
                   PeripheralObject(h, svd_elem, file, int0(svd_elem.baseAddress)))

\* SVDPeripheral(svd_elem, parent): parent is the SVDFile
SVDPeripheral_init(h, svd_elem, file) ==
    IF svd_elem.baseAddress = None THEN Raise("SVDNonFatalError", h)
    ELSE PeripheralBody(svd_elem, file,
                        PeripheralObject(h, svd_elem, file, int0(svd_elem.baseAddress)))

-----------------------------------------------------------------------------
(* Document elements: each attribute or child text is None when absent *)

FieldElem(name) ==
    [name |-> name, description |-> None, bitOffset |-> None, bitWidth |-> None,
     bitRange |-> None, lsb |-> None, msb |-> None, access |-> None,
     enumeratedValues |-> <<>>]

RegisterElem(name, addressOffset) ==
    [name |-> name, description |-> None, access |-> None, size |-> None,
     addressOffset |-> addressOffset, derivedFrom |-> None, dim |-> None,
     dimIncrement |-> None, dimIndex |-> None, fields |-> <<>>]

ClusterElem(name, addressOffset) ==
    [name |-> name, description |-> None, addressOffset |-> addressOffset,
     dim |-> None, dimIncrement |-> None, dimIndex |-> None,
     registers |-> <<>>, clusters |-> <<>>]

PeripheralElem(name, baseAddress) ==
    [name |-> name, description |-> None, baseAddress |-> baseAddress,
     derivedFrom |-> None, registers |-> <<>>, clusters |-> <<>>]

-----------------------------------------------------------------------------
(* Bounds and inputs of the loader *)

\* the longest document, in peripheral elements
MaxPeripherals == 2

\* the largest dim of an array element
MaxDim == 2

PeripheralNames == {<<"U","1">>, <<"U","2">>}

\* derivedFrom values: a name as written, in another case, a prefix, an unknown name
DerivedFromNames == {<<"U","1">>, <<"u","1">>, <<"U">>, <<"X">>}

BaseAddresses == {<<"0","x","1","0","0">>, <<"5","1","2">>}

EN == [FieldElem(<<"E","N">>) EXCEPT !.bitOffset = <<"0">>, !.bitWidth = <<"1">>]

SR == [RegisterElem(<<"S","R">>, <<"4">>) EXCEPT !.fields = <<EN>>]

DR == [RegisterElem(<<"D","R">>, <<"8">>) EXCEPT !.fields = <<EN>>]

CH == [ClusterElem(<<"C","H">>, <<"0","x","2","0">>) EXCEPT !.registers = <<DR>>]

CHdim(n) ==
    [ClusterElem(<<"C","H","%","s">>, <<"0","x","2","0">>) EXCEPT
        !.registers = <<DR>>, !.dim = str(n), !.dimIncrement = <<"0","x","1","0">>]

\* a cluster with a register and, after it, a cluster of its own
CHnested ==
    [CH EXCEPT !.clusters =
        <<[ClusterElem(<<"I","N">>, <<"4">>) EXCEPT !.registers = <<SR>>]>>]

\* the children of a peripheral element: none, a register and a cluster, a
\* register and a cluster that holds a cluster, or a register and a cluster array
PeripheralChildren ==
    {[registers |-> <<>>, clusters |-> <<>>], [registers |-> <<SR>>, clusters |-> <<CH>>],
     [registers |-> <<SR>>, clusters |-> <<CHnested>>]}
        \cup {[registers |-> <<SR>>, clusters |-> <<CHdim(n)>>] : n \in 1..MaxDim}

PeripheralElems ==
    LET plain == {PeripheralElem(n, b) : n \in PeripheralNames, b \in BaseAddresses}
        built == {[p EXCEPT !.registers = ch.registers, !.clusters = ch.clusters] :
                     p \in plain, ch \in PeripheralChildren}
        derived == {[p EXCEPT !.derivedFrom = d] : p \in plain, d \in DerivedFromNames}
        nobase == {[PeripheralElem(n, None) EXCEPT !.derivedFrom = d] :
                      n \in PeripheralNames, d \in {None, <<"X">>}}
    IN  built \cup derived \cup nobase

-----------------------------------------------------------------------------
(* SVDFile.__init__: the loop over peripherals/peripheral *)

\* the SVDFile as a peripheral's parent
File == [base_address |-> 0, peripherals |-> peripherals]

\* str(p.findtext("name"))
PeripheralKey(p) == IF p.name = None THEN <<"N","o","n","e">> ELSE p.name

\* what the document held at this place, and what became of it
Seen(p, outcome) ==
    [name |-> p.name, hasBase |-> p.baseAddress # None,
     derivedFrom |-> p.derivedFrom, clusters |-> p.clusters, outcome |-> outcome]

\* the root element of a parsed document: with a peripherals child, or without
Roots == {[peripherals |-> TRUE], [peripherals |-> FALSE]}

Init ==
    /\ heap = <<>>
    /\ peripherals = SmartDict_init
    /\ status = "loading"
    /\ doc = <<>>
    /\ cur = 0
    /\ inp \in Roots

\* root.iterfind("peripherals/peripheral") yields the peripheral children of the
\* root's peripherals children, none when the root has no such child: the loop
\* is running and the document has a next peripheral element
Loading == status = "loading" /\ inp.peripherals /\ Len(doc) < MaxPeripherals

\* the peripheral r is built and stored under its name
PeripheralLoaded(p, r) ==
    /\ Loading
    /\ r.exc = "none"
    /\ heap' = r.heap
    /\ peripherals' = SmartDict_setitem(peripherals, PeripheralKey(p), r.id)
    /\ doc' = Append(doc, Seen(p, "loaded"))
    /\ UNCHANGED <<status, cur, inp>>

\* except SVDNonFatalError: the peripheral is printed and left out
PeripheralSkipped(p, r) ==
    /\ Loading
    /\ r.exc = "SVDNonFatalError"
    /\ doc' = Append(doc, Seen(p, "dropped"))
    /\ UNCHANGED <<heap, peripherals, status, cur, inp>>

\* any other exception leaves SVDFile.__init__: no SVDFile is returned
LoadAborted(p, r) ==
    /\ Loading
    /\ r.exc \notin {"none", "SVDNonFatalError"}
    /\ doc' = Append(doc, Seen(p, "fatal"))
    /\ status' = "failed"
    /\ UNCHANGED <<heap, peripherals, cur, inp>>

\* SVDPeripheral(p, self), as it returns or raises in the current state
Built(p) == SVDPeripheral_init(heap, p, File)

\* the document has no more peripheral elements: the constructor returns
LoadReturned ==
    /\ status = "loading"
    /\ status' = "done"
    /\ UNCHANGED <<heap, peripherals, doc, cur, inp>>

Next ==
    \/ \E p \in PeripheralElems :
          \/ PeripheralLoaded(p, Built(p))
          \/ PeripheralSkipped(p, Built(p))
          \/ LoadAborted(p, Built(p))
    \/ LoadReturned

Spec == Init /\ [][Next]_vars

-----------------------------------------------------------------------------
(* What the loaded model holds *)

Range(s) == {s[i] : i \in 1..Len(s)}

Last(s) == s[Len(s)]

\* the peripheral objects built so far, and those the table names
AllPeripherals == {i \in 1..Len(heap) : heap[i].kind = "peripheral"}

LoadedPeripherals == Range(SmartDict_values(peripherals))

RegistersIn(h, o) == Range(SmartDict_values(h[o].registers))

ClustersIn(h, o) == Range(SmartDict_values(h[o].clusters))

FieldsIn(h, r) == Range(SmartDict_values(h[r].fields))

\* every object a peripheral reaches: its registers and clusters, the clusters'
\* registers and clusters, and the fields of all these registers
Owned(p) ==
    LET cs == ClustersIn(heap, p) \cup UNION {ClustersIn(heap, c) : c \in ClustersIn(heap, p)}
        rs == RegistersIn(heap, p) \cup UNION {RegistersIn(heap, c) : c \in cs}
    IN  cs \cup rs \cup UNION {FieldsIn(heap, r) : r \in rs}

RECURSIVE Distinct(_)
\* a sequence without its repetitions, each element at its first place
Distinct(s) ==
    IF s = <<>> THEN <<>>
    ELSE LET d == Distinct(SubSeq(s, 1, Len(s) - 1))
         IN  IF Last(s) \in Range(d) THEN d ELSE Append(d, Last(s))

\* the names of the document's peripheral elements that have a baseAddress
NamesWithBase == LET es == SelectSeq(doc, LAMBDA e : e.hasBase)
                 IN  [i \in 1..Len(es) |-> es[i].name]

\* the derivedFrom of element i is the name of element j, whatever the case of
\* its letters
Names(i, j) == lower(doc[i].derivedFrom) = lower(doc[j].name)

\* element i names, as derivedFrom, an earlier element of the document
NamesEarlier(i) == \E j \in 1..(i - 1) : Names(i, j)

\* element i names, as derivedFrom, an earlier element that was dropped
DerivesFromDropped(i) ==
    /\ doc[i].derivedFrom # None
    /\ \E j \in 1..(i - 1) : Names(i, j) /\ doc[j].outcome = "dropped"

-----------------------------------------------------------------------------
(* C1..C5: the loader *)

\* C1: every register of the loaded model, directly in a peripheral or inside a
\* cluster (every element of a dim cluster array included), has address =
\* peripheral base_address + the cluster's address_offset + its own offset, and
\* the base address stamped into it is the base_address of the cluster or
\* peripheral that owns it.
C1_RegisterAddresses ==
    \A p \in LoadedPeripherals :
        /\ \A r \in RegistersIn(heap, p) :
              /\ heap[r].parent_base_address = heap[p].base_address
              /\ SVDPeripheralRegister_address(heap[r])
                    = heap[p].base_address + heap[r].offset
        /\ \A c \in ClustersIn(heap, p) : \A r \in RegistersIn(heap, c) :
              /\ heap[r].parent_base_address = heap[c].base_address
              /\ SVDPeripheralRegister_address(heap[r])
                    = heap[p].base_address + heap[c].address_offset + heap[r].offset

\* C2: whenever a peripheral element (with a baseAddress, so that the lookup is
\* reached) has a derivedFrom that is the name of no earlier peripheral element of
\* the document, in whatever case, the load fails, whatever names are in the table.
C2_UnresolvedDerivationFails ==
    \A i \in 1..Len(doc) :
        (doc[i].hasBase /\ doc[i].derivedFrom # None /\ ~NamesEarlier(i))
            => (doc[i].outcome = "fatal" /\ status = "failed")

C4_DerivedCopiesIndependent ==
    \A a \in AllPeripherals : \A b \in AllPeripherals :
        a # b => Owned(a) \cap Owned(b) = {}

\* a peripheral derived from one that has a register, a cluster and fields
C4_Witness ==
    /\ doc # <<>> /\ Last(doc).outcome = "loaded" /\ Last(doc).derivedFrom # None
    /\ \E a \in AllPeripherals : \E b \in AllPeripherals :
          /\ a # b
          /\ \A p \in {a, b} :
                /\ RegistersIn(heap, p) # {}
                /\ \E r \in RegistersIn(heap, p) : FieldsIn(heap, r) # {}
                /\ \E c \in ClustersIn(heap, p) : RegistersIn(heap, c) # {}

\* the addresses of peripheral b in heap h are those of b's own base_address
Rebased(h, b) ==
    /\ \A r \in RegistersIn(h, b) :
          SVDPeripheralRegister_address(h[r]) = h[b].base_address + h[r].offset
    /\ \A c \in ClustersIn(h, b) :
          /\ h[c].base_address = h[b].base_address + h[c].address_offset
          /\ \A r \in RegistersIn(h, c) :
                SVDPeripheralRegister_address(h[r]) = h[c].base_address + h[r].offset

\* the last element of the document was built with derivedFrom
DerivedLast == doc # <<>> /\ Last(doc).outcome = "loaded" /\ Last(doc).derivedFrom # None

\* C5: when a peripheral is built with derivedFrom, its copied registers have
\* address base_address + offset, its copied clusters base_address + their
\* address_offset, the registers of a copied cluster that cluster's new
\* base_address + offset; and every object that existed before is as it was.
C5_DerivedRebased ==
    [][(Len(doc') = Len(doc) + 1 /\ DerivedLast')
          => /\ Rebased(heap', Get(peripherals'.od, Last(doc').name))
             /\ \A i \in 1..Len(heap) : heap'[i] = heap[i]]_vars

\* a derived peripheral at another base address than its source, with a register
\* of its own and a cluster array of two elements with registers
C5_Witness ==
    /\ DerivedLast
    /\ LET b == Get(peripherals.od, Last(doc).name)
       IN  /\ \E a \in AllPeripherals : heap[a].base_address # heap[b].base_address
           /\ RegistersIn(heap, b) # {}
           /\ Cardinality(ClustersIn(heap, b)) > 1
           /\ \A c \in ClustersIn(heap, b) : RegistersIn(heap, c) # {}

-----------------------------------------------------------------------------
(* SVDPeripheral.__init__, the loop over registers/register of one peripheral *)

\* the most register elements the peripheral element has
MaxRegisters == 3

\* the SVDFile before its first peripheral
EmptyFile == [base_address |-> 0, peripherals |-> SmartDict_init]

\* the peripheral element whose registers are read
U1 == PeripheralElem(<<"U","1">>, <<"0","x","1","0","0">>)

\* a field with an access of its own
RO == [FieldElem(<<"R","O">>) EXCEPT !.bitOffset = <<"1">>, !.bitWidth = <<"2">>,
                                     !.access = read_only]

\* a field given as a bit range, bits 8 to 15
HI == [FieldElem(<<"H","I">>) EXCEPT !.bitRange = <<"[","1","5",":","8","]">>]

CR1 == [RegisterElem(<<"C","R","1">>, <<"0">>) EXCEPT !.fields = <<EN>>]

WO == [RegisterElem(<<"W","O">>, <<"8">>) EXCEPT
          !.access = write_only, !.fields = <<EN, RO>>]

\* a register derived from CR1 that declares an access of its own
XR == [RegisterElem(<<"X","R">>, <<"1","2">>) EXCEPT
          !.derivedFrom = <<"C","R","1">>, !.access = read_only,
          !.description = <<"d">>]

\* a register derived from CR1 that declares a name and an offset alone
XN == [RegisterElem(<<"X","N">>, <<"2","4">>) EXCEPT !.derivedFrom = <<"C","R","1">>]

\* a register derived from a register no element defines
YR == [RegisterElem(<<"Y","R">>, <<"1","6">>) EXCEPT !.derivedFrom = <<"Z","Z">>]

\* a register of 8 bits
B8 == [RegisterElem(<<"B","8">>, <<"2","0">>) EXCEPT
          !.size = <<"8">>, !.fields = <<HI>>]

\* a register array: dim = n, dimIncrement = 4, addressOffset = 0x10, no dimIndex
CHn(n) ==
    [RegisterElem(<<"C","H","%","s">>, <<"0","x","1","0">>) EXCEPT
        !.dim = str(n), !.dimIncrement = <<"4">>, !.fields = <<EN>>]

\* a second register element named CR1, and one named cr1, at offsets of their own
CR1again == [RegisterElem(<<"C","R","1">>, <<"0","x","4","0">>) EXCEPT !.fields = <<EN>>]

CR1low == [RegisterElem(<<"c","r","1">>, <<"0","x","4","4">>) EXCEPT !.fields = <<EN>>]

\* a register whose name is the beginning of CR1's
CR == [RegisterElem(<<"C","R">>, <<"0","x","4","8">>) EXCEPT !.fields = <<EN>>]

\* a register with a field that gives no bit range, after a field that does
BAD == [RegisterElem(<<"B","A","D">>, <<"0","x","5","0">>) EXCEPT
           !.fields = <<EN, FieldElem(<<"X","F">>)>>]

\* a register without addressOffset, and one whose addressOffset is no integer
NOFF == [RegisterElem(<<"N","O","F","F">>, None) EXCEPT !.fields = <<EN>>]

ZOFF == [RegisterElem(<<"Z","O","F","F">>, <<"z","z">>) EXCEPT !.fields = <<EN>>]

\* an enumeratedValue element
EnumElem(name, value) == [name |-> name, description |-> None, value |-> value]

\* a register whose field EF, bits [1:0], has the enumerated values given
EnumRegister(name, values) ==
    [RegisterElem(name, <<"0","x","6","0">>) EXCEPT
        !.fields = <<[FieldElem(<<"E","F">>) EXCEPT
                         !.bitOffset = <<"0">>, !.bitWidth = <<"2">>,
                         !.enumeratedValues = values]>>]

\* enumerated values with literals that are no integer between literals that are
EVX == EnumRegister(<<"E","V","X">>,
           <<EnumElem(<<"o","f","f">>, <<"0">>),
             EnumElem(<<"d","c">>, <<"#","1","x">>),
             EnumElem(<<"b","a","d">>, <<"a","b","c">>),
             EnumElem(<<"o","n">>, <<"#","1","0">>),
             EnumElem(<<"h","i">>, <<"0","b","1","1">>)>>)

\* an enumerated value with an empty literal, and one without a value element
EVE == EnumRegister(<<"E","V","E">>,
           <<EnumElem(<<"o","f","f">>, <<"0">>), EnumElem(<<"e">>, <<>>)>>)

EVN == EnumRegister(<<"E","V","N">>,
           <<EnumElem(<<"o","f","f">>, <<"0">>), EnumElem(<<"n">>, None)>>)

\* the register elements that are not well formed
Malformed == {BAD, NOFF, ZOFF, EVE, EVN}

RegisterNodes ==
    {CR1, WO, XR, YR, B8, CR1again, CR1low} \cup {CHn(n) : n \in 0..MaxDim}
        \cup {XN, EVX, CR} \cup Malformed

InitReg ==
    /\ heap = PeripheralObject(<<>>, U1, EmptyFile, int0(U1.baseAddress)).heap
    /\ peripherals = SmartDict_init
    /\ status = "loading"
    /\ doc = <<>>
    /\ cur = 1
    /\ inp = <<>>

\* the loop is running and the peripheral element has a next register element
Reading == status = "loading" /\ Len(doc) < MaxRegisters

\* add_register(self, register) returns
RegisterRead(node, r) ==
    /\ Reading
    /\ r.exc = "none"
    /\ heap' = r.heap
    /\ doc' = Append(doc, node)
    /\ UNCHANGED <<peripherals, status, cur, inp>>

\* add_register(self, register) raises: the exception leaves SVDPeripheral and,
\* not being an SVDNonFatalError, SVDFile.__init__
RegisterRaised(node, r) ==
    /\ Reading
    /\ r.exc # "none"
    /\ doc' = Append(doc, node)
    /\ status' = "failed"
    /\ UNCHANGED <<heap, peripherals, cur, inp>>

\* add_register(self, node), as it returns or raises in the current state
Added(node) == add_register(heap, cur, node)

\* no more register elements: the peripheral is stored, and the load returns
PeripheralReturned ==
    /\ status = "loading"
    /\ peripherals' = SmartDict_setitem(peripherals, PeripheralKey(U1), cur)
    /\ status' = "done"
    /\ UNCHANGED <<heap, doc, cur, inp>>

NextReg ==
    \/ \E node \in RegisterNodes :
          \/ RegisterRead(node, Added(node))
          \/ RegisterRaised(node, Added(node))
    \/ PeripheralReturned

SpecReg == InitReg /\ [][NextReg]_vars

-----------------------------------------------------------------------------
(* SVDPeripheralRegister.__init__, the loop over fields/field of one register *)

\* the highest bit position a field is given
MaxBit == 10

\* what an <access> element may hold: a mode of the taxonomy or another text, and
\* None when the element is absent
AccessTexts == AccessModes \cup {<<"r","e","a","d">>, None}

\* the register element whose fields are read, with the access drawn
RegisterOf(access) == [RegisterElem(<<"R">>, <<"0">>) EXCEPT !.access = access]

\* the drawn bit range as bitOffset and bitWidth
OffsetWidthElem ==
    [FieldElem(<<"O","W">>) EXCEPT !.bitOffset = str(inp.lsb),
                                   !.bitWidth = str(1 + inp.msb - inp.lsb),
                                   !.access = inp.access]

\* the drawn bit range as bitRange, "[msb:lsb]"
BitRangeElem ==
    [FieldElem(<<"B","R">>) EXCEPT
        !.bitRange = <<"[">> \o str(inp.msb) \o <<":">> \o str(inp.lsb) \o <<"]">>,
        !.access = inp.access]

\* the drawn bit range as lsb and msb
LsbMsbElem ==
    [FieldElem(<<"L","M">>) EXCEPT !.lsb = str(inp.lsb), !.msb = str(inp.msb),
                                   !.access = inp.access]

\* a field element that gives no bit range
NoRangeElem == [FieldElem(<<"N","R">>) EXCEPT !.access = inp.access]

InitField ==
    /\ \E access \in AccessTexts :
          heap = RegisterBuilt(
                     RegisterHead(
                         PeripheralObject(<<>>, U1, EmptyFile, int0(U1.baseAddress)).heap,
                         RegisterOf(access), 1).heap,
                     2, RegisterOf(access)).heap
    /\ \E lsb \in 0..MaxBit : \E msb \in lsb..MaxBit : \E access \in AccessTexts :
          inp = [lsb |-> lsb, msb |-> msb, access |-> access]
    /\ peripherals = SmartDict_init
    /\ status = "loading"
    /\ doc = <<>>
    /\ cur = 2

\* one turn of the loop over fields/field, for a field element the register
\* element holds once: the field is built and stored, or the exception leaves the
\* register's constructor
FieldRead(field, r) ==
    /\ \A i \in 1..Len(doc) : doc[i] # field
    /\ doc' = Append(doc, field)
    /\ heap' = IF r.exc = "none" THEN r.heap ELSE heap
    /\ status' = IF r.exc = "none" THEN status ELSE "failed"
    /\ UNCHANGED <<peripherals, cur, inp>>

FieldFromOffsetWidth ==
    /\ status = "loading"
    /\ FieldRead(OffsetWidthElem, add_field(heap, cur, OffsetWidthElem))

FieldFromBitRange ==
    /\ status = "loading"
    /\ FieldRead(BitRangeElem, add_field(heap, cur, BitRangeElem))

FieldFromLsbMsb ==
    /\ status = "loading"
    /\ FieldRead(LsbMsbElem, add_field(heap, cur, LsbMsbElem))

FieldWithoutRange ==
    /\ status = "loading"
    /\ FieldRead(NoRangeElem, add_field(heap, cur, NoRangeElem))

\* no more field elements: the register's constructor returns
RegisterReturned ==
    /\ status = "loading"
    /\ status' = "done"
    /\ UNCHANGED <<heap, peripherals, doc, cur, inp>>

NextField ==
    \/ FieldFromOffsetWidth
    \/ FieldFromBitRange
    \/ FieldFromLsbMsb
    \/ FieldWithoutRange
    \/ RegisterReturned

SpecField == InitField /\ [][NextField]_vars

-----------------------------------------------------------------------------
(* C6..C10: registers and fields *)

\* the key is the name template with some text in the place of its "%s"
FromTemplate(template, key) ==
    LET i == CHOOSE j \in FormatPoints(template) : TRUE
    IN  /\ Len(key) >= Len(template) - 2
        /\ startswith(key, SubSeq(template, 1, i - 1))
        /\ endswith(key, SubSeq(template, i + 2, Len(template)))

\* the register array of element node stands in the table regs as n entries, the
\* m-th named by the decimal m and at offset b + m*k, each an object of its own
\* with fields of its own
Expanded(node, regs, n, k, b) ==
    /\ Cardinality({key \in Range(Keys(regs.od)) : FromTemplate(node.name, key)}) = n
    /\ \A m \in 0..(n - 1) :
          LET name == format(node.name, str(m)).val
          IN  /\ Has(regs.od, name)
              /\ heap[Get(regs.od, name)].name = name
              /\ heap[Get(regs.od, name)].offset = b + m * k
              /\ FieldsIn(heap, Get(regs.od, name)) # {}
    /\ \A m1 \in 0..(n - 1) : \A m2 \in 0..(n - 1) :
          m1 # m2 =>
              LET r1 == Get(regs.od, format(node.name, str(m1)).val)
                  r2 == Get(regs.od, format(node.name, str(m2)).val)
              IN  r1 # r2 /\ FieldsIn(heap, r1) \cap FieldsIn(heap, r2) = {}

\* the only register array among the elements read is element i
OnlyArray(i) ==
    /\ doc[i].dim # None
    /\ \A j \in 1..Len(doc) : j # i => doc[j].dim = None

\* C6: a register element with dim = n, dimIncrement = k, addressOffset = b and no
\* dimIndex stands in the parent's table as exactly n entries, the i-th named by
\* the decimal i in the name template and at offset b + i*k, each a register
\* object of its own with a field table of its own.
C6_DimExpansion ==
    \A i \in 1..Len(doc) :
        OnlyArray(i) =>
            Expanded(doc[i], heap[cur].registers, int0(doc[i].dim).val,
                     int0(doc[i].dimIncrement).val, int0(doc[i].addressOffset).val)

\* C7: in a loaded model every field of every register has 0 <= offset and
\* offset + width <= the size of its register.
C7_FieldsWithinRegister ==
    \A p \in LoadedPeripherals : \A r \in RegistersIn(heap, p) :
        \A f \in FieldsIn(heap, r) :
            /\ 0 <= heap[f].offset
            /\ heap[f].offset + heap[f].width <= heap[r].size

\* the field built from element i of the register element
FieldOf(i) == heap[Get(heap[cur].fields.od, doc[i].name)]

\* C8: for msb >= lsb >= 0, the field given as bitRange "[msb:lsb]", the field
\* given as lsb and msb, and the field given as bitOffset = lsb and bitWidth =
\* 1 + msb - lsb are all built, with offset = lsb and width = 1 + msb - lsb.
C8_EncodingsAgree ==
    \A i \in 1..Len(doc) :
        doc[i] \in {OffsetWidthElem, BitRangeElem, LsbMsbElem} =>
            /\ Has(heap[cur].fields.od, doc[i].name)
            /\ FieldOf(i).offset = inp.lsb
            /\ FieldOf(i).width = 1 + inp.msb - inp.lsb

\* the three encodings of a range of several bits, at positions of two digits
C8_Witness ==
    /\ inp.lsb > 0 /\ inp.msb > 9 /\ inp.msb > inp.lsb
    /\ Len(doc) = 3
    /\ \A i \in 1..3 : Has(heap[cur].fields.od, doc[i].name)
    /\ \A i \in 1..3 : FieldOf(i).offset = inp.lsb

\* no element that names this field gives it an access
OmitsAccess(name) ==
    \A node \in RegisterNodes : \A i \in 1..Len(node.fields) :
        node.fields[i].name = name => node.fields[i].access = None

\* C9: in a loaded model, a field whose element omits access has the access of
\* the register that owns it, be the register built directly or obtained through
\* derivedFrom with an access of its own.
C9_FieldAccessDefault ==
    \A p \in LoadedPeripherals : \A r \in RegistersIn(heap, p) :
        \A f \in FieldsIn(heap, r) :
            OmitsAccess(heap[f].name) => heap[f].access = heap[r].access

\* readable() and writable() of a register or field object
Readable(o) ==
    IF o.kind = "register" THEN SVDPeripheralRegister_readable(o)
    ELSE SVDPeripheralRegisterField_readable(o)

Writable(o) ==
    IF o.kind = "register" THEN SVDPeripheralRegister_writable(o)
    ELSE SVDPeripheralRegisterField_writable(o)

\* C10: for registers and fields alike, readable() is true exactly when access
\* is read-only, read-write or read-writeOnce, writable() exactly when it is
\* write-only, read-write, writeOnce or read-writeOnce; every mode of the
\* taxonomy is readable or writable, and read-only is readable and not writable.
C10_ReadableWritable ==
    \A i \in 1..Len(heap) :
        heap[i].kind \in {"register", "field"} =>
            /\ Readable(heap[i]) <=>
                  heap[i].access \in {read_only, read_write, read_writeOnce}
            /\ Writable(heap[i]) <=>
                  heap[i].access \in {write_only, read_write, writeOnce, read_writeOnce}
            /\ heap[i].access \in AccessModes => (Readable(heap[i]) \/ Writable(heap[i]))
            /\ heap[i].access = read_only => (Readable(heap[i]) /\ ~Writable(heap[i]))

\* a writeOnce register that holds a read-writeOnce field, and a read-only
\* register that holds a field of its access
C10_Witness ==
    /\ status = "done"
    /\ FieldsIn(heap, cur) # {}
    /\ \/ /\ heap[cur].access = writeOnce
          /\ \E f \in FieldsIn(heap, cur) : heap[f].access = read_writeOnce
       \/ /\ heap[cur].access = read_only /\ inp.access = None
          /\ \E f \in FieldsIn(heap, cur) : heap[f].access = read_only

-----------------------------------------------------------------------------
(* A SmartDict in use: keys are stored and deleted, and looked up *)

\* the most operations applied to the table
MaxOps == 4

\* the keys stored: two that differ only in case, and numbered neighbours
StoredKeys ==
    {<<"A","b","1">>, <<"a","B","1">>, <<"A","b","2">>,
     <<"A","b","1","0">>, <<"A","b","1","1">>}

\* the keys looked up: the stored ones, a third spelling, and prefixes
LookupKeys ==
    StoredKeys \cup {<<"A","B","1">>, <<"a","b","1">>, <<"A","b">>, <<"a","b">>, <<"Z">>}

InitDict ==
    /\ peripherals = SmartDict_init
    /\ doc = <<>>
    /\ heap = <<>>
    /\ status = "done"
    /\ cur = 0
    /\ inp = <<>>

\* d[key] = value, the value being the number of the operation
Insert(key) ==
    /\ Len(doc) < MaxOps
    /\ peripherals' = SmartDict_setitem(peripherals, key, Len(doc) + 1)
    /\ doc' = Append(doc, [op |-> "set", key |-> key, exc |-> "none"])
    /\ UNCHANGED <<heap, status, cur, inp>>

\* del d[key]: what is left of the table when KeyError is raised stays
Deleted(key, r) ==
    /\ Len(doc) < MaxOps
    /\ peripherals' = r.d
    /\ doc' = Append(doc, [op |-> "del", key |-> key, exc |-> r.exc])
    /\ UNCHANGED <<heap, status, cur, inp>>

Delete(key) == Deleted(key, SmartDict_delitem(peripherals, key))

NextDict ==
    \E key \in StoredKeys :
        \/ Insert(key)
        \/ Delete(key)

SpecDict == InitDict /\ [][NextDict]_vars

-----------------------------------------------------------------------------
(* C11..C13: SmartDict *)

\* operations i and j store two keys that differ only in case, i before j, and
\* no other operation is on a key of their lowercase form
CaseTwins(i, j) ==
    /\ i < j
    /\ doc[i].op = "set" /\ doc[j].op = "set"
    /\ doc[i].key # doc[j].key
    /\ lower(doc[i].key) = lower(doc[j].key)
    /\ \A n \in 1..Len(doc) :
          n \notin {i, j} => lower(doc[n].key) # lower(doc[i].key)

\* the keys looked up that are a third spelling of the keys of i and j
ThirdSpellings(i, j) ==
    {k \in LookupKeys : k \notin {doc[i].key, doc[j].key}
                        /\ lower(k) = lower(doc[i].key)}

\* both keys are stored and exact lookup of each gives its own value
BothStored(i, j) ==
    /\ SmartDict_getitem(peripherals, doc[i].key) = [exc |-> "none", val |-> i]
    /\ SmartDict_getitem(peripherals, doc[j].key) = [exc |-> "none", val |-> j]

\* C11 as stated: after K1 and later K2, which differs from K1 only in case, are
\* stored, exact lookup of each gives its own value and lookup by a third
\* spelling gives the value of K1, the first to register.
C11_CaseLookupFirst ==
    \A i \in 1..Len(doc) : \A j \in 1..Len(doc) :
        CaseTwins(i, j) =>
            /\ BothStored(i, j)
            /\ \A k \in ThirdSpellings(i, j) :
                  SmartDict_getitem(peripherals, k) = [exc |-> "none", val |-> i]

\* C11 as amended: after K1 and later K2, which differs from K1 only in case, are
\* stored, exact lookup of each gives its own value and lookup by a third
\* spelling gives the value of K2, the last to register.
C11_CaseLookupLast ==
    \A i \in 1..Len(doc) : \A j \in 1..Len(doc) :
        CaseTwins(i, j) =>
            /\ BothStored(i, j)
            /\ \A k \in ThirdSpellings(i, j) :
                  SmartDict_getitem(peripherals, k) = [exc |-> "none", val |-> j]

\* two keys that differ only in case are stored, with another key between them,
\* and there is a third spelling to look up
C11_Witness ==
    /\ Len(doc) = 3
    /\ CaseTwins(1, 3)
    /\ ThirdSpellings(1, 3) # {}
    /\ Len(peripherals.od) = 3

\* lookup of key finds it as written, or finds its lowercase form in the case map
ExactHit(key) == Has(peripherals.od, key)

CaseHit(key) == Has(peripherals.casemap, lower(key))

\* C12: is_ambiguous(key) is true if and only if the key is neither an exact hit
\* nor a case-insensitive hit and more than one stored entry is a prefix
\* candidate for it; a key that equals a stored key up to case is never ambiguous.
C12_AmbiguousIff ==
    \A key \in LookupKeys :
        is_ambiguous(peripherals, key) <=>
            /\ ~ExactHit(key)
            /\ ~CaseHit(key)
            /\ Len(prefix_match_iter(peripherals, key)) > 1

\* the key as lookup sees it: letters in lower case, then the trailing digits
Candidate(stored, key) ==
    /\ startswith(lower(stored), NameOf(lower(key)))
    /\ endswith(lower(stored), NumberOf(lower(key)))

\* the stored keys that are prefix candidates for key, in insertion order
CandidatesInOrder(key) ==
    SelectSeq(Keys(peripherals.od), LAMBDA stored : Candidate(stored, key))

\* nothing was deleted
OnlyInserts == \A i \in 1..Len(doc) : doc[i].op = "set"

\* C13 as stated: when a key has more than one prefix candidate, prefix lookup
\* returns the candidate that comes first in the table's insertion order, after
\* any sequence of inserts.
C13_PrefixFirstInserted ==
    OnlyInserts =>
        \A key \in LookupKeys :
            Len(CandidatesInOrder(key)) > 1 =>
                prefix_match(peripherals, key) = CandidatesInOrder(key)[1]

\* the first and the last operation on a key of the lowercase form
FirstOf(form) ==
    CHOOSE i \in 1..Len(doc) :
        /\ lower(doc[i].key) = form
        /\ \A j \in 1..(i - 1) : lower(doc[j].key) # form

LastOf(form) ==
    CHOOSE i \in 1..Len(doc) :
        /\ lower(doc[i].key) = form
        /\ \A j \in (i + 1)..Len(doc) : lower(doc[j].key) # form

\* the lowercase forms inserted that are prefix candidates for key
CandidateForms(key) ==
    {lower(doc[i].key) : i \in {j \in 1..Len(doc) : Candidate(doc[j].key, key)}}

\* the candidate form that registered first
FirstForm(key) ==
    CHOOSE f \in CandidateForms(key) :
        \A g \in CandidateForms(key) : FirstOf(f) <= FirstOf(g)

\* no two stored keys differ only in case
NoCaseTwins ==
    \A i \in 1..Len(doc) : \A j \in 1..Len(doc) :
        lower(doc[i].key) = lower(doc[j].key) => doc[i].key = doc[j].key

\* C13 as amended: after any sequence of inserts, prefix lookup goes by lowercase
\* forms, in the order in which the forms first registered, each form standing
\* for the key that registered it last: it returns the last key of the first
\* candidate form, and nothing when there is no candidate.  When no two stored
\* keys differ only in case, that is the first candidate in insertion order.
C13_PrefixFirstRegistered ==
    OnlyInserts =>
        \A key \in LookupKeys :
            /\ CandidateForms(key) = {} => prefix_match(peripherals, key) = None
            /\ CandidateForms(key) # {} =>
                  prefix_match(peripherals, key) = doc[LastOf(FirstForm(key))].key
            /\ (NoCaseTwins /\ CandidateForms(key) # {}) =>
                  prefix_match(peripherals, key) = CandidatesInOrder(key)[1]

\* three inserts, two of keys that differ only in case, after which a prefix has
\* several candidates and lookup returns another than the first inserted
C13_Witness ==
    /\ OnlyInserts /\ Len(doc) = 3 /\ ~NoCaseTwins
    /\ \E key \in LookupKeys :
          /\ Len(CandidatesInOrder(key)) > 1
          /\ prefix_match(peripherals, key) # CandidatesInOrder(key)[1]

-----------------------------------------------------------------------------
(* C14..: registers of one peripheral *)

\* the offset element i gives its register
OffsetOf(i) == int0(doc[i].addressOffset).val

\* elements i and j, i before j, are single registers whose names are equal or
\* differ only in case, at offsets that tell their registers apart; no other
\* element has such a name, and both were added
RegisterTwins(i, j) ==
    /\ i < j
    /\ doc[i].dim = None /\ doc[j].dim = None
    /\ lower(doc[i].name) = lower(doc[j].name)
    /\ OffsetOf(i) # OffsetOf(j)
    /\ \A n \in 1..Len(doc) : n \notin {i, j} => lower(doc[n].name) # lower(doc[i].name)
    /\ status = "failed" => j < Len(doc)

\* the registers of the peripheral that are at the offset of element i
StoredAt(i) == {r \in RegistersIn(heap, cur) : heap[r].offset = OffsetOf(i)}

\* parent.registers[name] finds a register at the offset of element i
Finds(name, i) ==
    /\ SmartDict_getitem(heap[cur].registers, name).exc = "none"
    /\ heap[SmartDict_getitem(heap[cur].registers, name).val].offset = OffsetOf(i)

WithoutBitRange(node) ==
    \E k \in 1..Len(node.fields) :
        /\ ~(Truthy(node.fields[k].bitOffset) /\ Truthy(node.fields[k].bitWidth))
        /\ ~Truthy(node.fields[k].bitRange)
        /\ ~(Truthy(node.fields[k].lsb) /\ Truthy(node.fields[k].msb))

\* only the register of element i is lost: the load goes on, and the registers
\* that were in the table when element i was read are in it still
OnlyLost(i) ==
    /\ status # "failed"
    /\ \A j \in 1..(i - 1) :
          (doc[j].dim = None /\ doc[j] \notin Malformed) =>
              SmartDict_contains(heap[cur].registers, doc[j].name)

\* C15: when a field has none of the three bit-range encodings, only the
\* register that contains the field is lost: the load completes, and the sibling
\* registers are in the model.
C15_MissingRangeIsolated ==
    \A i \in 1..Len(doc) : WithoutBitRange(doc[i]) => OnlyLost(i)

\* C16: when a register element's addressOffset is missing or does not parse as
\* an integer, only that register is lost: the load completes, and the other
\* registers are in the model.
C16_BadOffsetIsolated ==
    \A i \in 1..Len(doc) :
        int0(doc[i].addressOffset).exc # "none" => OnlyLost(i)

\* C17: a document whose root has no peripherals container cannot be loaded:
\* the load fails and no model is returned.
C17_NoContainerFails == ~inp.peripherals => status # "done"

\* the enumerated values of field k of a register element whose literal is an
\* integer, and those whose literal is not
Parseable(node, k) ==
    {e \in Range(node.fields[k].enumeratedValues) : EnumIndex(e.value).exc = "none"}

Unparseable(node, k) ==
    Range(node.fields[k].enumeratedValues) \ Parseable(node, k)

\* the enum table of the field built from field k of register element i
EnumOf(i, k) ==
    heap[Get(heap[Get(heap[cur].registers.od, doc[i].name)].fields.od,
             doc[i].fields[k].name)].enum

\* the table holds the entries of the parseable enumerated values and no other
OnlyParseable(i, k) ==
    /\ \A e \in Parseable(doc[i], k) : Has(EnumOf(i, k), EnumIndex(e.value).val)
    /\ \A n \in Range(Keys(EnumOf(i, k))) :
          \E e \in Parseable(doc[i], k) : EnumIndex(e.value).val = n

\* C18: when the literal of an enumerated value cannot be parsed, that entry
\* alone is left out of the field's table: the field, its register and the rest
\* of the document still build.
C18_UnparseableEntryDropped ==
    \A i \in 1..Len(doc) : \A k \in 1..Len(doc[i].fields) :
        Unparseable(doc[i], k) # {} =>
            /\ status # "failed"
            /\ Has(heap[cur].registers.od, doc[i].name)
            /\ OnlyParseable(i, k)

\* C19: a register derived from a base takes the base's attributes and fields
\* and keeps its own name, whether or not it declares a description of its own.
C19_DerivedKeepsName ==
    \A i \in 1..Len(doc) :
        (doc[i].derivedFrom # None /\ Has(heap[cur].registers.od, doc[i].name)) =>
            heap[Get(heap[cur].registers.od, doc[i].name)].name = doc[i].name

\* peripheral element i was loaded, and the table holds its peripheral: no later
\* element of the same name was stored over it
Holds(i) ==
    /\ doc[i].outcome = "loaded"
    /\ doc[i].name # None
    /\ \A j \in (i + 1)..Len(doc) :
          ~(doc[j].outcome = "loaded" /\ doc[j].name = doc[i].name)

\* the clusters table of the peripheral built from element i
ClustersOf(i) == heap[Get(peripherals.od, doc[i].name)].clusters

\* the single cluster elements of peripheral element i that hold a cluster
Nesting(i) == {c \in Range(doc[i].clusters) : c.dim = None /\ c.clusters # <<>>}

\* C20: a cluster nested inside a cluster is built: after the load, the outer
\* cluster's table of clusters holds the inner cluster under its name.
C20_NestedClusterBuilt ==
    \A i \in 1..Len(doc) : Holds(i) =>
        \A c \in Nesting(i) :
            /\ Has(ClustersOf(i).od, c.name)
            /\ \A n \in Range(c.clusters) :
                  Has(heap[Get(ClustersOf(i).od, c.name)].clusters.od, n.name)

\* element i is a single register that add_register took in without raising, and
\* no element before it has its name, letter case ignored
NewName(i) ==
    /\ doc[i].dim = None
    /\ status = "failed" => i < Len(doc)
    /\ \A j \in 1..(i - 1) : lower(doc[j].name) # lower(doc[i].name)

\* C21: within one peripheral, every single register element whose name differs,
\* letter case ignored, from the names of all registers added before it is in the
\* register table after the build and is what exact lookup of its name returns;
\* so is a register whose name is the beginning of an earlier register's name.
C21_NewNameStored ==
    \A i \in 1..Len(doc) :
        NewName(i) => Has(heap[cur].registers.od, doc[i].name) /\ Finds(doc[i].name, i)

-----------------------------------------------------------------------------
(* C22, C23: SmartDict under deletes *)

\* the step is del d[key]
Deletes(key) ==
    /\ Len(doc') = Len(doc) + 1
    /\ doc'[Len(doc')].op = "del"
    /\ doc'[Len(doc')].key = key

\* C22: after any sequence of inserts and deletes, deleting a key that is an
\* exact key of the ordered table raises nothing and removes exactly that key;
\* so after 'A' and 'a' are inserted and 'a' is deleted, deleting 'A' succeeds.
C22_DeleteStored ==
    [][\A key \in StoredKeys :
          (Has(peripherals.od, key) /\ Deletes(key)) =>
              /\ doc'[Len(doc')].exc = "none"
              /\ peripherals'.od = Remove(peripherals.od, key)]_vars

\* a lookup that finds its key in the case map, or by prefix, finds it in the
\* ordered table
LookupSound(key) ==
    (Has(peripherals.casemap, lower(key)) \/ Truthy(prefix_match(peripherals, key)))
        => SmartDict_getitem(peripherals, key).exc = "none"

\* C23: after any sequence of inserts and deletes, raising or not, every case-map
\* entry maps the lowercase form of a key to a key the ordered table holds, and a
\* case-insensitive or prefix lookup that finds a case-map entry does not fail on
\* the ordered table.
C23_CaseMapSound ==
    /\ \A i \in 1..Len(peripherals.casemap) :
          /\ peripherals.casemap[i].k = lower(peripherals.casemap[i].v)
          /\ Has(peripherals.od, peripherals.casemap[i].v)
    /\ \A key \in LookupKeys : LookupSound(key)

\* a delete raised, a delete of one of two keys that differ only in case went
\* through, and the case map still has an entry
C23_Witness ==
    /\ \E i \in 1..Len(doc) : doc[i].op = "del" /\ doc[i].exc = "KeyError"
    /\ \E i \in 1..Len(doc) : \E j \in 1..(i - 1) : \E k \in 1..(i - 1) :
          /\ doc[i].op = "del" /\ doc[i].exc = "none"
          /\ doc[j].op = "set" /\ doc[k].op = "set"
          /\ doc[j].key # doc[k].key /\ lower(doc[j].key) = lower(doc[k].key)
          /\ doc[i].key = doc[j].key
    /\ peripherals.casemap # <<>>

====
